---- MODULE Spec2Model ----
(***************************************************************************)
(* Model of src/robomongo/ssh/server.c: the SSH tunnel bootstrap program   *)
(* (init, socket_connect, socket_listen, ssh_connect, cleanup, main).      *)
(*                                                                         *)
(* The program is sequential.  Its state is the position of main (pc), the *)
(* local variables of main and of ssh_connect, and the resources it holds  *)
(* in the operating system and in libssh2 (socket descriptors, the session *)
(* object, the library initialisation).  Every library or system call the  *)
(* code makes is appended to `trace` with its return value, so that the    *)
(* order of the calls can be stated as a state predicate.  The results of  *)
(* the calls (the gateway, the kernel) are the inputs, chosen with \E.     *)
(***************************************************************************)
EXTENDS Integers, Sequences, FiniteSets, TLC

VARIABLES
    pc,             \* position of the program
    win32,          \* TRUE for the build with WIN32 defined (lines 4-8, 81-91, 108-110)
    type,           \* the enum ssh_auth_type argument of ssh_connect
    mainLocals,     \* locals of main declared so far: err, ssh_socket, session, local_socket
    sshLocals,      \* locals of ssh_connect: auth, session, rc, userauthlist
    wsa,            \* Winsock state: "down" | "up"
    sshlib,         \* libssh2 state: "uninit" | "init" | "exit"
    sockets,        \* descriptor -> "open" | "connected" | "bound" | "listening" | "closed"
    sess,           \* the LIBSSH2_SESSION object: "none" | "created" | "handshaken" | "authenticated" | "freed"
    gatewayMethods, \* the method names the gateway advertised (sequence of names)
    clients,        \* local clients connected to the listening port: bytes sent, bytes the
                    \* destination received, and "open" | "wclosed" | "reset"
    trace           \* the calls made so far, <<function, call, return value>>

vars == <<pc, win32, type, mainLocals, sshLocals, wsa, sshlib, sockets, sess,
          gatewayMethods, clients, trace>>

----------------------------------------------------------------------------
(* Bounds of the model *)

\* longest list of method names the gateway advertises
MaxMethods == 2
\* most bytes one local client sends
MaxBytes == 1
\* most calls of socket_connect and socket_listen made on their own
MaxCalls == 2

----------------------------------------------------------------------------
(* Program constants *)

AUTH_NONE == 0
AUTH_PASSWORD == 1
AUTH_PUBLICKEY == 2
AuthTypes == {AUTH_NONE, AUTH_PASSWORD, AUTH_PUBLICKEY}

\* socket_invalid, and the error value of socket_connect / socket_listen
socket_invalid == -1
\* the backlog passed to listen()
Backlog == 2

\* socket() hands out the lowest free descriptor; 0, 1 and 2 are taken
FirstFd == 3
NextFd == FirstFd + Cardinality(DOMAIN sockets)

\* the non-NULL LIBSSH2_SESSION* that libssh2_session_init() hands out
SessionHandle == 1
\* a non-zero return code of a libssh2 / Winsock call
RcError == -1

\* struct ssh_tunnel_config as main fills it in
config ==
    [ localip |-> "127.0.0.1", localport |-> 27040,
      username |-> "dmitry", password |-> "",
      privatekeyfile |-> "/Users/dmitry/.ssh/ubuntik",
      publickeyfile |-> "/Users/dmitry/.ssh/ubuntik.pub",
      passphrase |-> "",
      serverip |-> "198.61.166.171", serverport |-> 22,
      remotehost |-> "localhost", remoteport |-> 27017 ]

\* inet_addr(ip) != INADDR_NONE: ip is a dotted-quad other than 255.255.255.255
DottedQuads == {"127.0.0.1", "198.61.166.171"}
inet_addr_ok(ip) == ip \in DottedQuads

Bytes == {0, 1}

----------------------------------------------------------------------------
(* C strings are sequences of characters *)

password == <<"p","a","s","s","w","o","r","d">>
publickey == <<"p","u","b","l","i","c","k","e","y">>
\* "keyboard-interactive" (RFC 4256)
keyboardInteractive ==
    <<"k","e","y","b","o","a","r","d","-","i","n","t","e","r","a","c","t","i","v","e">>
\* A method name of the name@domain extension form of RFC 4251 section 6:
\* "publickey-hostbound-v00@openssh.com"
publickeyHostbound ==
    publickey \o <<"-","h","o","s","t","b","o","u","n","d","-","v","0","0",
                   "@","o","p","e","n","s","s","h",".","c","o","m">>

\* The method names a gateway may put into its name-list
MethodNames == {password, publickey, keyboardInteractive, publickeyHostbound}

\* The name-lists a gateway may advertise: distinct names, at most MaxMethods
MethodLists ==
    { l \in UNION { [1..n -> MethodNames] : n \in 0..MaxMethods } :
        \A i, j \in DOMAIN l : i # j => l[i] # l[j] }

\* The comma-separated string libssh2_userauth_list returns for a name-list
RECURSIVE Join(_)
Join(l) ==
    IF Len(l) = 0 THEN <<>>
    ELSE IF Len(l) = 1 THEN l[1]
    ELSE l[1] \o <<",">> \o Join(Tail(l))

\* strstr(haystack, needle) != NULL
strstr(haystack, needle) ==
    \E i \in 1..(Len(haystack) - Len(needle) + 1) :
        SubSeq(haystack, i, i + Len(needle) - 1) = needle

\* x & bit, for a one-bit mask
BitAnd(x, bit) == ((x \div bit) % 2) * bit
\* x | bit, for a one-bit mask
BitOr(x, bit) == IF BitAnd(x, bit) # 0 THEN x ELSE x + bit

\* A char* value: NULL or a string
NULL == [isNull |-> TRUE, chars |-> <<>>]
Str(s) == [isNull |-> FALSE, chars |-> s]

----------------------------------------------------------------------------
(* Helpers on the state *)

Call(fn, op, ret) == <<fn, op, ret>>
Declared(locals, name) == name \in DOMAIN locals

\* a function is first entered / has returned
Returned(fn) == \E i \in DOMAIN trace : trace[i][1] = fn /\ trace[i][2] = "return"
ReturnValue(fn) ==
    LET i == CHOOSE k \in DOMAIN trace : trace[k][1] = fn /\ trace[k][2] = "return"
    IN trace[i][3]
Called(fn, op) == \E i \in DOMAIN trace : trace[i][1] = fn /\ trace[i][2] = op
CallResult(fn, op) ==
    LET i == CHOOSE k \in DOMAIN trace : trace[k][1] = fn /\ trace[k][2] = op
    IN trace[i][3]

----------------------------------------------------------------------------
(* The functions main calls.  Each takes the results of the system calls   *)
(* it makes (env) and yields its return value, the calls it made and the   *)
(* resources it leaves behind.                                             *)

\* int init(): env.wsa, env.ssh are the return codes of WSAStartup, libssh2_init
init(env) ==
    IF win32 /\ env.wsa # 0 THEN
        [ ret |-> 1, wsa |-> "down", sshlib |-> sshlib,
          calls |-> << Call("init", "WSAStartup", env.wsa) >> ]
    ELSE
        LET started == IF win32 THEN << Call("init", "WSAStartup", 0) >> ELSE << >>
            up == IF win32 THEN "up" ELSE wsa
        IN  IF env.ssh # 0 THEN
                [ ret |-> 1, wsa |-> up, sshlib |-> sshlib,
                  calls |-> started \o << Call("init", "libssh2_init", env.ssh) >> ]
            ELSE
                [ ret |-> 0, wsa |-> up, sshlib |-> "init",
                  calls |-> started \o << Call("init", "libssh2_init", 0) >> ]

\* void cleanup()
cleanup ==
    [ wsa |-> IF win32 THEN "down" ELSE wsa, sshlib |-> "exit",
      calls |-> << Call("cleanup", "libssh2_exit", 0) >>
                \o (IF win32 THEN << Call("cleanup", "WSACleanup", 0) >> ELSE << >>) ]

\* the messages socket_connect and socket_listen pass to log_error
LogOpenSocket == "log_error: Failed to open socket"
LogInetAddrConnect == "log_error: inet_addr error"
LogConnect == "log_error: Failed to connect to %s:%d"
LogInetAddrListen == "log_error: inet_addr"
LogBind == "log_error: Cannot bind to port %d"
LogListen == "log_error: Failed to listen opened socket"

\* socket_connect with the message of the socket() failure copied to the
\* inet_addr failure
socket_connect_mislogged(ip, port, env) ==
    LET fn == "socket_connect"
        sock == NextFd
    IN  IF ~env.socket THEN
            [ ret |-> -1, sockets |-> sockets,
              calls |-> << Call(fn, "socket", socket_invalid), Call(fn, LogOpenSocket, 0) >> ]
        ELSE IF ~inet_addr_ok(ip) THEN
            [ ret |-> -1, sockets |-> sockets @@ (sock :> "open"),
              calls |-> << Call(fn, "socket", sock), Call(fn, "inet_addr", -1),
                           Call(fn, LogOpenSocket, 0) >> ]
        ELSE IF ~env.connect THEN
            [ ret |-> -1, sockets |-> sockets @@ (sock :> "open"),
              calls |-> << Call(fn, "socket", sock), Call(fn, "inet_addr", 0),
                           Call(fn, "connect", -1), Call(fn, LogConnect, 0) >> ]
        ELSE
            [ ret |-> sock, sockets |-> sockets @@ (sock :> "connected"),
              calls |-> << Call(fn, "socket", sock), Call(fn, "inet_addr", 0),
                           Call(fn, "connect", 0) >> ]

\* socket_type socket_connect(char *ip, int port):
\* env.socket, env.connect tell whether socket() and connect() succeed
socket_connect(ip, port, env) ==
    LET fn == "socket_connect"
        sock == NextFd
    IN  IF ~env.socket THEN
            [ ret |-> -1, sockets |-> sockets,
              calls |-> << Call(fn, "socket", socket_invalid), Call(fn, LogOpenSocket, 0) >> ]
        ELSE IF ~inet_addr_ok(ip) THEN
            [ ret |-> -1, sockets |-> sockets @@ (sock :> "open"),
              calls |-> << Call(fn, "socket", sock), Call(fn, "inet_addr", -1),
                           Call(fn, LogInetAddrConnect, 0) >> ]
        ELSE IF ~env.connect THEN
            [ ret |-> -1, sockets |-> sockets @@ (sock :> "open"),
              calls |-> << Call(fn, "socket", sock), Call(fn, "inet_addr", 0),
                           Call(fn, "connect", -1), Call(fn, LogConnect, 0) >> ]
        ELSE
            [ ret |-> sock, sockets |-> sockets @@ (sock :> "connected"),
              calls |-> << Call(fn, "socket", sock), Call(fn, "inet_addr", 0),
                           Call(fn, "connect", 0) >> ]

\* socket_listen returning the descriptor although listen() failed
socket_listen_unchecked(ip, port, env) ==
    LET fn == "socket_listen"
        listensock == NextFd
    IN  IF ~env.socket THEN
            [ ret |-> -1, sockets |-> sockets,
              calls |-> << Call(fn, "socket", socket_invalid), Call(fn, LogOpenSocket, 0) >> ]
        ELSE IF ~inet_addr_ok(ip) THEN
            [ ret |-> -1, sockets |-> sockets @@ (listensock :> "open"),
              calls |-> << Call(fn, "socket", listensock), Call(fn, "inet_addr", -1),
                           Call(fn, LogInetAddrListen, 0) >> ]
        ELSE IF ~env.bind THEN
            [ ret |-> -1, sockets |-> sockets @@ (listensock :> "open"),
              calls |-> << Call(fn, "socket", listensock), Call(fn, "inet_addr", 0),
                           Call(fn, "setsockopt", 0), Call(fn, "bind", -1),
                           Call(fn, LogBind, 0) >> ]
        ELSE
            [ ret |-> listensock,
              sockets |-> sockets @@ (listensock :> IF env.listen THEN "listening" ELSE "bound"),
              calls |-> << Call(fn, "socket", listensock), Call(fn, "inet_addr", 0),
                           Call(fn, "setsockopt", 0), Call(fn, "bind", 0),
                           Call(fn, "listen", IF env.listen THEN 0 ELSE -1) >> ]

\* socket_type socket_listen(char *ip, int port):
\* env.socket, env.bind, env.listen tell whether socket(), bind(), listen() succeed
socket_listen(ip, port, env) ==
    LET fn == "socket_listen"
        listensock == NextFd
    IN  IF ~env.socket THEN
            [ ret |-> -1, sockets |-> sockets,
              calls |-> << Call(fn, "socket", socket_invalid), Call(fn, LogOpenSocket, 0) >> ]
        ELSE IF ~inet_addr_ok(ip) THEN
            [ ret |-> -1, sockets |-> sockets @@ (listensock :> "open"),
              calls |-> << Call(fn, "socket", listensock), Call(fn, "inet_addr", -1),
                           Call(fn, LogInetAddrListen, 0) >> ]
        ELSE IF ~env.bind THEN
            [ ret |-> -1, sockets |-> sockets @@ (listensock :> "open"),
              calls |-> << Call(fn, "socket", listensock), Call(fn, "inet_addr", 0),
                           Call(fn, "setsockopt", 0), Call(fn, "bind", -1),
                           Call(fn, LogBind, 0) >> ]
        ELSE IF ~env.listen THEN
            [ ret |-> -1, sockets |-> sockets @@ (listensock :> "bound"),
              calls |-> << Call(fn, "socket", listensock), Call(fn, "inet_addr", 0),
                           Call(fn, "setsockopt", 0), Call(fn, "bind", 0),
                           Call(fn, "listen", -1), Call(fn, LogListen, 0) >> ]
        ELSE
            [ ret |-> listensock, sockets |-> sockets @@ (listensock :> "listening"),
              calls |-> << Call(fn, "socket", listensock), Call(fn, "inet_addr", 0),
                           Call(fn, "setsockopt", 0), Call(fn, "bind", 0),
                           Call(fn, "listen", 0) >> ]

----------------------------------------------------------------------------
(* ssh_connect, one action per stage.  It returns by appending             *)
(* <<"ssh_connect", "return", v>> to the trace and moving to "ssh_returned" *)

SshFn == "ssh_connect"

SshReturn(calls, v) ==
    /\ trace' = trace \o calls \o << Call(SshFn, "return", v) >>
    /\ pc' = "ssh_returned"

\* lines 185-195: declarations and libssh2_session_init
SshSessionInit ==
    /\ pc = "ssh_connect"
    /\ \E session \in {0, SessionHandle} :
        /\ sshLocals' = [auth |-> AUTH_NONE, session |-> session]
        /\ IF session = 0
             THEN /\ SshReturn(<< Call(SshFn, "libssh2_session_init", 0) >>, 0)
                  /\ UNCHANGED sess
             ELSE /\ trace' = Append(trace, Call(SshFn, "libssh2_session_init", session))
                  /\ sess' = "created"
                  /\ pc' = "ssh_handshake"
    /\ UNCHANGED <<win32, type, mainLocals, wsa, sshlib, sockets, gatewayMethods, clients>>

\* SshHandshake without the test of rc: a failed handshake goes on
SshHandshakeUnchecked ==
    /\ pc = "ssh_handshake"
    /\ \E rc \in {0, RcError} :
        /\ sshLocals' = sshLocals @@ ("rc" :> rc)
        /\ trace' = Append(trace, Call(SshFn, "libssh2_session_handshake", rc))
        /\ sess' = IF rc = 0 THEN "handshaken" ELSE sess
        /\ pc' = "ssh_userauth_list"
    /\ UNCHANGED <<win32, type, mainLocals, wsa, sshlib, sockets, gatewayMethods, clients>>

\* lines 197-204: libssh2_session_handshake
SshHandshake ==
    /\ pc = "ssh_handshake"
    /\ \E rc \in {0, RcError} :
        /\ sshLocals' = sshLocals @@ ("rc" :> rc)
        /\ IF rc # 0
             THEN /\ SshReturn(<< Call(SshFn, "libssh2_session_handshake", rc) >>, 0)
                  /\ UNCHANGED sess
             ELSE /\ trace' = Append(trace, Call(SshFn, "libssh2_session_handshake", rc))
                  /\ sess' = "handshaken"
                  /\ pc' = "ssh_userauth_list"
    /\ UNCHANGED <<win32, type, mainLocals, wsa, sshlib, sockets, gatewayMethods, clients>>

\* lines 223-226: the bits of auth computed from a method string
AuthBits(userauthlist) ==
    LET a1 == IF strstr(userauthlist, password)
                THEN BitOr(AUTH_NONE, AUTH_PASSWORD) ELSE AUTH_NONE
    IN  IF strstr(userauthlist, publickey) THEN BitOr(a1, AUTH_PUBLICKEY) ELSE a1

\* lines 211-226: libssh2_hostkey_hash, libssh2_userauth_list and the two strstr.
\* libssh2_userauth_list returns the gateway's name-list as a string, or NULL.
\* With NULL, log_msg("%s") and strstr read through a null pointer: undefined
\* behaviour, modelled as a crash or as any value of auth.
SshUserauthList ==
    /\ pc = "ssh_userauth_list"
    /\ LET calls == << Call(SshFn, "libssh2_hostkey_hash", 0),
                       Call(SshFn, "libssh2_userauth_list", 0) >>
       IN  \/ \E l \in MethodLists :
                /\ gatewayMethods' = l
                /\ sshLocals' = [sshLocals EXCEPT !.auth = AuthBits(Join(l))]
                                @@ ("userauthlist" :> Str(Join(l)))
                /\ trace' = trace \o calls
                /\ pc' = "ssh_auth"
           \/ /\ gatewayMethods' = << >>
              /\ \/ \E a \in {AUTH_NONE, AUTH_PASSWORD, AUTH_PUBLICKEY,
                              AUTH_PASSWORD + AUTH_PUBLICKEY} :
                        /\ sshLocals' = [sshLocals EXCEPT !.auth = a]
                                        @@ ("userauthlist" :> NULL)
                        /\ trace' = trace \o calls
                        /\ pc' = "ssh_auth"
                 \/ /\ sshLocals' = sshLocals @@ ("userauthlist" :> NULL)
                    /\ trace' = trace \o calls
                    /\ pc' = "crashed"
    /\ UNCHANGED <<win32, type, mainLocals, wsa, sshlib, sockets, sess, clients>>

\* AuthBranch without the tests of the selected method
AuthBranchAnyType(auth, t) ==
    IF BitAnd(auth, AUTH_PASSWORD) # 0 THEN "password"
    ELSE IF BitAnd(auth, AUTH_PUBLICKEY) # 0 THEN "publickey"
    ELSE "none"

\* lines 230, 238, 245: the branch of the if / else if / else that is taken
AuthBranch(auth, t) ==
    IF BitAnd(auth, AUTH_PASSWORD) # 0 /\ t = AUTH_PASSWORD THEN "password"
    ELSE IF BitAnd(auth, AUTH_PUBLICKEY) # 0 /\ t = AUTH_PUBLICKEY THEN "publickey"
    ELSE "none"

\* SshAuthenticate with a fallback: a rejected password is followed by the
\* public key when the gateway advertises it too
SshAuthenticateFallback ==
    /\ pc = "ssh_auth"
    /\ LET pw == Call(SshFn, "libssh2_userauth_password", RcError)
           pk(rc) == Call(SshFn, "libssh2_userauth_publickey_fromfile", rc)
       IN  IF BitAnd(sshLocals.auth, AUTH_PASSWORD) # 0 /\ type = AUTH_PASSWORD
             THEN \/ /\ SshReturn(<< Call(SshFn, "libssh2_userauth_password", 0) >>,
                                  sshLocals.session)
                     /\ sess' = "authenticated"
                  \/ /\ BitAnd(sshLocals.auth, AUTH_PUBLICKEY) = 0
                     /\ SshReturn(<< pw >>, 0)
                     /\ UNCHANGED sess
                  \/ /\ BitAnd(sshLocals.auth, AUTH_PUBLICKEY) # 0
                     /\ \/ /\ SshReturn(<< pw, pk(0) >>, sshLocals.session)
                           /\ sess' = "authenticated"
                        \/ /\ SshReturn(<< pw, pk(RcError) >>, 0)
                           /\ UNCHANGED sess
             ELSE /\ SshReturn(<< >>, 0)
                  /\ UNCHANGED sess
    /\ UNCHANGED <<win32, type, mainLocals, sshLocals, wsa, sshlib, sockets,
                   gatewayMethods, clients>>

\* lines 228-250: the credential exchange and the return of the session
SshAuthenticate ==
    /\ pc = "ssh_auth"
    /\ LET branch == AuthBranch(sshLocals.auth, type)
           op == IF branch = "password" THEN "libssh2_userauth_password"
                 ELSE "libssh2_userauth_publickey_fromfile"
       IN  IF branch = "none"
             THEN /\ SshReturn(<< >>, 0)
                  /\ UNCHANGED sess
             ELSE \E rc \in {0, RcError} :
                    IF rc # 0
                      THEN /\ SshReturn(<< Call(SshFn, op, rc) >>, 0)
                           /\ UNCHANGED sess
                      ELSE /\ SshReturn(<< Call(SshFn, op, rc) >>, sshLocals.session)
                           /\ sess' = "authenticated"
    /\ UNCHANGED <<win32, type, mainLocals, sshLocals, wsa, sshlib, sockets,
                   gatewayMethods, clients>>

----------------------------------------------------------------------------
(* main, one action per statement group *)

MainReturn(calls, code) ==
    /\ trace' = trace \o calls \o << Call("main", "return", code) >>
    /\ pc' = "exited"

\* MainInit without the test of err
MainInitUnchecked ==
    /\ pc = "main"
    /\ \E env \in [wsa : {0, RcError}, ssh : {0, RcError}] :
        LET r == init(env)
        IN  /\ wsa' = r.wsa
            /\ sshlib' = r.sshlib
            /\ mainLocals' = [mainLocals EXCEPT !.err = r.ret]
            /\ trace' = trace \o r.calls \o << Call("init", "return", r.ret) >>
            /\ pc' = "main_connect"
    /\ UNCHANGED <<win32, type, sshLocals, sockets, sess, gatewayMethods, clients>>

\* lines 270-274: err = init(); if (err) return 1;
MainInit ==
    /\ pc = "main"
    /\ \E env \in [wsa : {0, RcError}, ssh : {0, RcError}] :
        LET r == init(env)
            calls == r.calls \o << Call("init", "return", r.ret) >>
        IN  /\ wsa' = r.wsa
            /\ sshlib' = r.sshlib
            /\ mainLocals' = [mainLocals EXCEPT !.err = r.ret]
            /\ IF r.ret # 0
                 THEN MainReturn(calls, 1)
                 ELSE /\ trace' = trace \o calls
                      /\ pc' = "main_connect"
    /\ UNCHANGED <<win32, type, sshLocals, sockets, sess, gatewayMethods, clients>>

\* MainSocketConnect without the test of ssh_socket against -1
MainSocketConnectUnchecked ==
    /\ pc = "main_connect"
    /\ \E env \in [socket : BOOLEAN, connect : BOOLEAN] :
        LET r == socket_connect(config.serverip, config.serverport, env)
        IN  /\ sockets' = r.sockets
            /\ mainLocals' = mainLocals @@ ("ssh_socket" :> r.ret)
            /\ trace' = trace \o r.calls \o << Call("socket_connect", "return", r.ret) >>
            /\ pc' = "ssh_connect"
    /\ UNCHANGED <<win32, type, sshLocals, wsa, sshlib, sess, gatewayMethods, clients>>

\* lines 276-281: ssh_socket = socket_connect(...); if (ssh_socket == -1) return 1;
MainSocketConnect ==
    /\ pc = "main_connect"
    /\ \E env \in [socket : BOOLEAN, connect : BOOLEAN] :
        LET r == socket_connect(config.serverip, config.serverport, env)
            calls == r.calls \o << Call("socket_connect", "return", r.ret) >>
        IN  /\ sockets' = r.sockets
            /\ mainLocals' = mainLocals @@ ("ssh_socket" :> r.ret)
            /\ IF r.ret = -1
                 THEN MainReturn(calls, 1)
                 ELSE /\ trace' = trace \o calls
                      /\ pc' = "ssh_connect"
    /\ UNCHANGED <<win32, type, sshLocals, wsa, sshlib, sess, gatewayMethods, clients>>

\* MainSession without the test of session against 0
MainSessionUnchecked ==
    /\ pc = "ssh_returned"
    /\ mainLocals' = mainLocals @@ ("session" :> trace[Len(trace)][3])
    /\ pc' = "main_listen"
    /\ UNCHANGED <<win32, type, sshLocals, wsa, sshlib, sockets, sess,
                   gatewayMethods, clients, trace>>

\* lines 283-288: session = ssh_connect(...); if (session == 0) return 1;
MainSession ==
    /\ pc = "ssh_returned"
    /\ LET session == trace[Len(trace)][3]
       IN  /\ mainLocals' = mainLocals @@ ("session" :> session)
           /\ IF session = 0
                THEN MainReturn(<< >>, 1)
                ELSE /\ pc' = "main_listen"
                     /\ UNCHANGED trace
    /\ UNCHANGED <<win32, type, sshLocals, wsa, sshlib, sockets, sess,
                   gatewayMethods, clients>>

\* lines 290-294: local_socket = socket_listen(...); if (local_socket == -1) return 1;
MainSocketListen ==
    /\ pc = "main_listen"
    /\ \E env \in [socket : BOOLEAN, bind : BOOLEAN, listen : BOOLEAN] :
        LET r == socket_listen(config.localip, config.localport, env)
            calls == r.calls \o << Call("socket_listen", "return", r.ret) >>
        IN  /\ sockets' = r.sockets
            /\ mainLocals' = mainLocals @@ ("local_socket" :> r.ret)
            /\ IF r.ret = -1
                 THEN MainReturn(calls, 1)
                 ELSE /\ trace' = trace \o calls
                      /\ pc' = "main_wait"
    /\ UNCHANGED <<win32, type, sshLocals, wsa, sshlib, sess, gatewayMethods, clients>>

\* lines 296-300: log_msg("Waiting for TCP connection ..."); cleanup(); return 0;
MainCleanup ==
    /\ pc = "main_wait"
    /\ LET r == cleanup
       IN  /\ wsa' = r.wsa
           /\ sshlib' = r.sshlib
           /\ MainReturn(r.calls \o << Call("cleanup", "return", 0) >>, 0)
    /\ UNCHANGED <<win32, type, mainLocals, sshLocals, sockets, sess,
                   gatewayMethods, clients>>

----------------------------------------------------------------------------
(* The local clients.  While a descriptor of the process is listening, the *)
(* kernel completes connections to the port, up to the backlog, and takes  *)
(* the bytes the clients send.  The destination receives what the program  *)
(* relays to it.                                                           *)

Listening == pc # "exited" /\ \E fd \in DOMAIN sockets : sockets[fd] = "listening"

ClientConnect ==
    /\ Listening
    /\ Len(clients) < Backlog
    /\ clients' = Append(clients, [sent |-> << >>, received |-> << >>, state |-> "open"])
    /\ UNCHANGED <<pc, win32, type, mainLocals, sshLocals, wsa, sshlib, sockets,
                   sess, gatewayMethods, trace>>

ClientSend ==
    /\ Listening
    /\ \E c \in DOMAIN clients, b \in Bytes :
        /\ clients[c].state = "open"
        /\ Len(clients[c].sent) < MaxBytes
        /\ clients' = [clients EXCEPT ![c].sent = Append(@, b)]
    /\ UNCHANGED <<pc, win32, type, mainLocals, sshLocals, wsa, sshlib, sockets,
                   sess, gatewayMethods, trace>>

\* a client closes its write side (shutdown(SHUT_WR)): end of its byte stream
ClientHalfClose ==
    /\ Listening
    /\ \E c \in DOMAIN clients :
        /\ clients[c].state = "open"
        /\ clients' = [clients EXCEPT ![c].state = "wclosed"]
    /\ UNCHANGED <<pc, win32, type, mainLocals, sshLocals, wsa, sshlib, sockets,
                   sess, gatewayMethods, trace>>

\* a client aborts its connection (RST): any further I/O on it is an error
ClientReset ==
    /\ Listening
    /\ \E c \in DOMAIN clients :
        /\ clients[c].state # "reset"
        /\ clients' = [clients EXCEPT ![c].state = "reset"]
    /\ UNCHANGED <<pc, win32, type, mainLocals, sshLocals, wsa, sshlib, sockets,
                   sess, gatewayMethods, trace>>

----------------------------------------------------------------------------
(* Specifications *)

\* The process: main from its first statement, in either build
Init ==
    /\ pc = "main"
    /\ win32 \in BOOLEAN
    /\ type = AUTH_PUBLICKEY
    /\ mainLocals = [err |-> 0]
    /\ sshLocals = << >>
    /\ wsa = "down"
    /\ sshlib = "uninit"
    /\ sockets = << >>
    /\ sess = "none"
    /\ gatewayMethods = << >>
    /\ clients = << >>
    /\ trace = << >>

Next ==
    \/ MainInit
    \/ MainSocketConnect
    \/ SshSessionInit
    \/ SshHandshake
    \/ SshUserauthList
    \/ SshAuthenticate
    \/ MainSession
    \/ MainSocketListen
    \/ MainCleanup
    \/ ClientConnect
    \/ ClientSend
    \/ ClientHalfClose
    \/ ClientReset

Spec == Init /\ [][Next]_vars

\* ssh_connect called on a connected socket with any of the three methods
InitSsh ==
    /\ pc = "ssh_connect"
    /\ win32 \in BOOLEAN
    /\ type \in AuthTypes
    /\ mainLocals = [err |-> 0]
    /\ sshLocals = << >>
    /\ wsa = IF win32 THEN "up" ELSE "down"
    /\ sshlib = "init"
    /\ sockets = (FirstFd :> "connected")
    /\ sess = "none"
    /\ gatewayMethods = << >>
    /\ clients = << >>
    /\ trace = << >>

NextSsh ==
    \/ SshSessionInit
    \/ SshHandshake
    \/ SshUserauthList
    \/ SshAuthenticate

SpecSsh == InitSsh /\ [][NextSsh]_vars

\* socket_connect and socket_listen called with any address, after init:
\* at most MaxCalls calls in all
Addrs == DottedQuads \cup {"localhost", "255.255.255.255"}

InitSockets ==
    /\ pc = "sockets"
    /\ win32 \in BOOLEAN
    /\ type = AUTH_PUBLICKEY
    /\ mainLocals = [err |-> 0]
    /\ sshLocals = << >>
    /\ wsa = IF win32 THEN "up" ELSE "down"
    /\ sshlib = "init"
    /\ sockets = << >>
    /\ sess = "none"
    /\ gatewayMethods = << >>
    /\ clients = << >>
    /\ trace = << >>

CallsMade ==
    Cardinality({ i \in DOMAIN trace : trace[i][2] = "return" })

CallSocketConnect ==
    /\ pc = "sockets"
    /\ CallsMade < MaxCalls
    /\ \E ip \in Addrs, env \in [socket : BOOLEAN, connect : BOOLEAN] :
        LET r == socket_connect(ip, config.serverport, env)
        IN  /\ sockets' = r.sockets
            /\ trace' = trace \o r.calls \o << Call("socket_connect", "return", r.ret) >>
    /\ UNCHANGED <<pc, win32, type, mainLocals, sshLocals, wsa, sshlib, sess,
                   gatewayMethods, clients>>

CallSocketListen ==
    /\ pc = "sockets"
    /\ CallsMade < MaxCalls
    /\ \E ip \in Addrs, env \in [socket : BOOLEAN, bind : BOOLEAN, listen : BOOLEAN] :
        LET r == socket_listen(ip, config.localport, env)
        IN  /\ sockets' = r.sockets
            /\ trace' = trace \o r.calls \o << Call("socket_listen", "return", r.ret) >>
    /\ UNCHANGED <<pc, win32, type, mainLocals, sshLocals, wsa, sshlib, sess,
                   gatewayMethods, clients>>

NextSockets ==
    \/ CallSocketConnect
    \/ CallSocketListen

SpecSockets == InitSockets /\ [][NextSockets]_vars

----------------------------------------------------------------------------
(* Vocabulary of the properties *)

\* the process has returned from main, and with which code
Exited == pc = "exited"
ExitCode == trace[Len(trace)][3]

\* positions of the trace where function fn returned
Returns(fn) == { i \in DOMAIN trace : trace[i][1] = fn /\ trace[i][2] = "return" }
\* positions of the trace where fn called op
Calls(fn, op) == { i \in DOMAIN trace : trace[i][1] = fn /\ trace[i][2] = op }

\* the name of the selected method as it appears in a name-list
MethodNameOf(t) ==
    IF t = AUTH_PASSWORD THEN password
    ELSE IF t = AUTH_PUBLICKEY THEN publickey
    ELSE <<"n","o","n","e">>

\* the selected method is one of the names the gateway advertised
SelectedAdvertised ==
    \E i \in DOMAIN gatewayMethods : gatewayMethods[i] = MethodNameOf(type)

\* the gateway returned a name-list (not NULL) to this call of ssh_connect
ListReturned ==
    /\ Declared(sshLocals, "userauthlist")
    /\ ~sshLocals.userauthlist.isNull

\* the credential submissions of ssh_connect, in order
SubmissionOps == {"libssh2_userauth_password", "libssh2_userauth_publickey_fromfile"}
Submissions == { i \in DOMAIN trace : trace[i][1] = SshFn /\ trace[i][2] \in SubmissionOps }

SshReturned == Returns(SshFn) # {}
SshResult == ReturnValue(SshFn)

----------------------------------------------------------------------------
(* C1 *)

\* C1 (as claimed): whenever the gateway returned a method list and the
\* selected method is not one of the methods in it, ssh_connect makes no
\* credential submission and returns 0.
C1_UnsupportedNeverSubmits ==
    (ListReturned /\ ~SelectedAdvertised) =>
        /\ Submissions = {}
        /\ SshReturned => SshResult = 0

----------------------------------------------------------------------------
(* C2 *)

\* C2: a call of ssh_connect makes at most one credential submission, and
\* when the gateway rejects the submission the call has returned 0 having
\* made that one submission only.
C2_OneSubmissionNoFallback ==
    /\ Cardinality(Submissions) <= 1
    /\ \A i \in Submissions :
         trace[i][3] # 0 =>
            /\ Submissions = {i}
            /\ SshReturned /\ SshResult = 0
            /\ Returns(SshFn) = {i + 1}

\* the gateway advertises both methods and rejects the selected one
C2_Witness ==
    /\ \E i, j \in DOMAIN gatewayMethods :
         gatewayMethods[i] = password /\ gatewayMethods[j] = publickey
    /\ \E i \in Submissions : trace[i][3] # 0
    /\ SshReturned /\ SshResult = 0

----------------------------------------------------------------------------
(* C3 *)

\* the library calls of ssh_connect in the order of its stages
SshStages ==
    << {"libssh2_session_init"}, {"libssh2_session_handshake"},
       {"libssh2_hostkey_hash"}, {"libssh2_userauth_list"}, SubmissionOps,
       {"return"} >>

\* the calls ssh_connect made so far
SshCalls == SelectSeq(trace, LAMBDA e : e[1] = SshFn)

\* the stages are passed in order, each at most once, and nothing follows a
\* failed stage but the return of 0
SshInOrder ==
    /\ \A i, j \in DOMAIN SshCalls :
         i < j =>
            \E a, b \in DOMAIN SshStages :
                a < b /\ SshCalls[i][2] \in SshStages[a] /\ SshCalls[j][2] \in SshStages[b]
    /\ \A i \in DOMAIN SshCalls :
         LET e == SshCalls[i]
             failed == \/ e[2] = "libssh2_session_init" /\ e[3] = 0
                       \/ e[2] = "libssh2_session_handshake" /\ e[3] # 0
                       \/ e[2] \in SubmissionOps /\ e[3] # 0
         IN  failed /\ i < Len(SshCalls) =>
                /\ i + 1 = Len(SshCalls)
                /\ SshCalls[i + 1] = Call(SshFn, "return", 0)

\* C3 (as claimed): ssh_connect returns a session exactly when the session
\* was created, the handshake succeeded, the selected method is in the list
\* the gateway advertised and the gateway accepted its credentials; the
\* stages run in order and a failed stage is followed by the return of 0 only.
C3_SessionIffAllStages ==
    /\ SshInOrder
    /\ SshReturned =>
         ( SshResult # 0 <=>
             /\ \E i \in Calls(SshFn, "libssh2_session_init") : trace[i][3] # 0
             /\ \E i \in Calls(SshFn, "libssh2_session_handshake") : trace[i][3] = 0
             /\ ListReturned /\ SelectedAdvertised
             /\ \E i \in Submissions :
                  /\ trace[i][3] = 0
                  /\ trace[i][2] = IF type = AUTH_PASSWORD
                                     THEN "libssh2_userauth_password"
                                     ELSE "libssh2_userauth_publickey_fromfile" )

----------------------------------------------------------------------------
(* C4 *)

\* fn returned success before position i of the trace
SucceededBefore(fn, i) ==
    \E j \in Returns(fn) :
        /\ j < i
        /\ IF fn = "init" THEN trace[j][3] = 0
           ELSE IF fn = SshFn THEN trace[j][3] # 0
           ELSE trace[j][3] # -1

\* fn returned failure at position i of the trace
FailedAt(fn, i) ==
    /\ i \in Returns(fn)
    /\ IF fn = "init" THEN trace[i][3] # 0
       ELSE IF fn = SshFn THEN trace[i][3] = 0
       ELSE trace[i][3] = -1

\* C4: every call made by socket_listen comes after successful returns of
\* init, socket_connect and ssh_connect, in that order; and once
\* socket_connect has failed the process has exited with a non-zero code
\* and no call of socket_listen was made and no descriptor is bound or
\* listening.
C4_ListenOnlyAfterSetup ==
    /\ \A i \in DOMAIN trace :
         trace[i][1] = "socket_listen" =>
            \E c \in Returns(SshFn) :
                /\ c < i /\ trace[c][3] # 0
                /\ \E b \in Returns("socket_connect") :
                     /\ b < c /\ trace[b][3] # -1
                     /\ \E a \in Returns("init") : a < b /\ trace[a][3] = 0
    /\ \A i \in DOMAIN trace :
         FailedAt("socket_connect", i) =>
            /\ Exited /\ ExitCode # 0
            /\ \A j \in DOMAIN trace : trace[j][1] # "socket_listen"
            /\ \A fd \in DOMAIN sockets : sockets[fd] \notin {"bound", "listening"}

\* the listener was opened
C4_Witness ==
    /\ \E i \in Calls("socket_listen", "listen") : trace[i][3] = 0
    /\ \E fd \in DOMAIN sockets : sockets[fd] = "listening"

----------------------------------------------------------------------------
(* C5 *)

\* C5 (as claimed): when the process has exited and init had succeeded,
\* cleanup has run exactly once.
C5_CleanupPairedWithInit ==
    (Exited /\ SucceededBefore("init", Len(trace))) =>
        Cardinality(Returns("cleanup")) = 1

----------------------------------------------------------------------------
(* C6 *)

\* C6 (as claimed): when the process has exited after a successful setup,
\* the listener socket, the gateway socket and the session have been
\* released, the session before libssh2_exit, and nothing is left open.
C6_AllReleasedAtExit ==
    (Exited /\ ExitCode = 0) =>
        /\ \A fd \in DOMAIN sockets : sockets[fd] = "closed"
        /\ sess = "freed"
        /\ \E i \in Calls("main", "libssh2_session_free") :
             \A j \in Calls("cleanup", "libssh2_exit") : i < j

----------------------------------------------------------------------------
(* C7 *)

\* the descriptor socket() handed to fn, when it handed one
SocketOf(fn) == CallResult(fn, "socket")

\* C7 (as claimed): when socket_connect, socket_listen or ssh_connect has
\* returned its failure value, the socket or session it created is released.
C7_HandleReleasedOnFailure ==
    /\ \A fn \in {"socket_connect", "socket_listen"} :
         ( /\ \E i \in DOMAIN trace : FailedAt(fn, i)
           /\ Called(fn, "socket") /\ SocketOf(fn) # socket_invalid )
         => sockets[SocketOf(fn)] = "closed"
    /\ ( /\ \E i \in DOMAIN trace : FailedAt(SshFn, i)
         /\ \E i \in Calls(SshFn, "libssh2_session_init") : trace[i][3] # 0 )
       => sess = "freed"

----------------------------------------------------------------------------
(* C8 *)

SetupSteps == {"init", "socket_connect", SshFn, "socket_listen"}

\* C8: a setup step that failed is followed in the trace by nothing but the
\* return of main with a non-zero code, and the process has exited with 0
\* only when each of the four setup steps returned success.
C8_ExitCodeReflectsSetup ==
    /\ \A fn \in SetupSteps : \A i \in DOMAIN trace :
         FailedAt(fn, i) =>
            /\ i < Len(trace) =>
                 /\ i + 1 = Len(trace)
                 /\ trace[i + 1][1] = "main" /\ trace[i + 1][2] = "return"
                 /\ trace[i + 1][3] # 0
            /\ Exited => ExitCode # 0
    /\ (Exited /\ ExitCode = 0) =>
         \A fn \in SetupSteps : SucceededBefore(fn, Len(trace))

\* the process has exited after ssh_connect failed
C8_Witness ==
    /\ Exited
    /\ \E i \in DOMAIN trace : FailedAt(SshFn, i)
    /\ ExitCode # 0

----------------------------------------------------------------------------
(* C9 *)

\* C9 (as claimed): once the listener is set up the process enters the accept
\* loop, and every local client that connected got a forwarding channel; so
\* a process that has exited after setting up the listener has called accept
\* and has opened a channel for each connected client.
C9_AcceptLoopEntered ==
    (Exited /\ SucceededBefore("socket_listen", Len(trace))) =>
        /\ Calls("main", "accept") # {}
        /\ Cardinality(Calls("main", "libssh2_channel_direct_tcpip")) = Len(clients)

----------------------------------------------------------------------------
(* C10 *)

----------------------------------------------------------------------------
(* C11 *)

\* the calls with which main relays: channel to client, client to channel
RelayToClientOps == {"libssh2_channel_read", "send"}
RelayToChannelOps == {"recv", "libssh2_channel_write"}

----------------------------------------------------------------------------
(* C12 *)

----------------------------------------------------------------------------
(* C13 *)

\* the call of socket_connect that failed before its return at position i:
\* the last system call made before the return
ConnectCauses == {"socket", "inet_addr", "connect"}
ConnectCause(i) ==
    LET k == CHOOSE k \in 1..(i - 1) :
                /\ trace[k][1] = "socket_connect"
                /\ trace[k][2] \in ConnectCauses
                /\ \A m \in (k + 1)..(i - 1) : trace[m][2] \notin ConnectCauses
    IN  trace[k][2]

ConnectFailures == { i \in DOMAIN trace : FailedAt("socket_connect", i) }

\* the message socket_connect logs for each cause
ConnectLogOf(cause) ==
    IF cause = "socket" THEN LogOpenSocket
    ELSE IF cause = "inet_addr" THEN LogInetAddrConnect
    ELSE LogConnect

\* C13 (as claimed): two failures of socket_connect with different causes
\* return different results.
C13_ResultTellsCause ==
    \A i, j \in ConnectFailures :
        ConnectCause(i) # ConnectCause(j) => trace[i][3] # trace[j][3]

\* C13 (amended): every failure of socket_connect returns -1 whatever its
\* cause; what tells the three causes apart is the message logged just before
\* the return, one message per cause and the three messages different.
C13_LogTellsCause ==
    /\ \A i \in ConnectFailures :
         /\ trace[i][3] = -1
         /\ trace[i - 1] = Call("socket_connect", ConnectLogOf(ConnectCause(i)), 0)
    /\ \A a, b \in ConnectCauses : a # b => ConnectLogOf(a) # ConnectLogOf(b)

\* socket_connect has failed twice, for different causes
C13_Witness ==
    \E i, j \in ConnectFailures : ConnectCause(i) # ConnectCause(j)

----------------------------------------------------------------------------
(* C14 *)

HandshakeFailures ==
    { i \in Calls(SshFn, "libssh2_session_handshake") : trace[i][3] # 0 }

\* C14: once the handshake has failed, ssh_connect has returned 0 without
\* asking for the method list and without submitting credentials, and
\* nothing follows in the trace but the return of main with 1: no call is
\* made on the gateway socket, which stays as connect left it, and no
\* listener exists.
C14_HandshakeFailureStops ==
    \A i \in HandshakeFailures :
        /\ Calls(SshFn, "libssh2_userauth_list") = {}
        /\ Submissions = {}
        /\ i < Len(trace) /\ trace[i + 1] = Call(SshFn, "return", 0)
        /\ \A j \in (i + 2)..Len(trace) :
             j = i + 2 /\ trace[j] = Call("main", "return", 1)
        /\ \A fd \in DOMAIN sockets : sockets[fd] = "connected"
        /\ sess = "created"

\* main has exited after a failed handshake
C14_Witness ==
    /\ HandshakeFailures # {}
    /\ Exited /\ ExitCode = 1

----------------------------------------------------------------------------
(* C15 *)

\* the calls that use a socket or the SSH session
UsesSocketOrSession(i) == trace[i][1] \in {"socket_connect", SshFn, "socket_listen"}
InitSucceededBefore(i) ==
    \E a \in Returns("init") : a < i /\ trace[a][3] = 0

\* C15: init is called at most once and has succeeded before every call
\* that uses a socket or the session; cleanup runs at most once, only after a
\* successful init, and after it nothing uses a socket or the session.
C15_InitBeforeUseCleanupAfter ==
    /\ Cardinality(Returns("init")) <= 1
    /\ Cardinality(Calls("init", "libssh2_init")) <= 1
    /\ \A i \in DOMAIN trace : UsesSocketOrSession(i) => InitSucceededBefore(i)
    /\ Cardinality(Returns("cleanup")) <= 1
    /\ Cardinality(Calls("cleanup", "libssh2_exit")) <= 1
    /\ \A i \in DOMAIN trace :
         trace[i][1] = "cleanup" =>
            /\ InitSucceededBefore(i)
            /\ \A j \in (i + 1)..Len(trace) : ~UsesSocketOrSession(j)
    /\ sshlib = "uninit" => \A i \in DOMAIN trace : ~UsesSocketOrSession(i)

\* cleanup has run after the sockets and the session were used
C15_Witness ==
    /\ Returns("cleanup") # {}
    /\ \E i \in DOMAIN trace : UsesSocketOrSession(i)
    /\ sshlib = "exit"

----------------------------------------------------------------------------
(* C16 *)

\* the system calls of socket_listen in the order of the code
ListenOrder == << "socket", "inet_addr", "setsockopt", "bind", "listen" >>

\* where the call that returned at position i began
CallStart(i) ==
    LET before == { j \in 1..(i - 1) : trace[j][2] = "return" }
    IN  IF before = {} THEN 1
        ELSE (CHOOSE j \in before : \A k \in before : k <= j) + 1

\* the system calls made by the call that returned at position i
SysCalls(i) ==
    SelectSeq(SubSeq(trace, CallStart(i), i - 1),
              LAMBDA e : \E k \in DOMAIN ListenOrder : e[2] = ListenOrder[k])

\* C16: every call of socket_listen makes its system calls in the order
\* socket, (inet_addr,) setsockopt, bind, listen and stops at the first that
\* fails; it returns the descriptor exactly when bind and listen both
\* succeeded, and that descriptor is then listening; otherwise it returns -1.
C16_ListenOrderAndResult ==
    \A i \in Returns("socket_listen") :
        LET calls == SysCalls(i)
            n == Len(calls)
            failed(e) == IF e[2] = "socket" THEN e[3] = socket_invalid ELSE e[3] # 0
        IN  /\ n >= 1 /\ n <= Len(ListenOrder)
            /\ \A k \in 1..n : calls[k][1] = "socket_listen" /\ calls[k][2] = ListenOrder[k]
            /\ \A k \in 1..(n - 1) : ~failed(calls[k])
            /\ n < Len(ListenOrder) => failed(calls[n])
            /\ trace[i][3] # -1 <=>
                 /\ n = Len(ListenOrder)
                 /\ calls[n - 1] = Call("socket_listen", "bind", 0)
                 /\ calls[n] = Call("socket_listen", "listen", 0)
            /\ trace[i][3] # -1 =>
                 /\ trace[i][3] = calls[1][3]
                 /\ sockets[trace[i][3]] = "listening"
            /\ trace[i][3] = -1 =>
                 \A fd \in DOMAIN sockets :
                    (n >= 1 /\ fd = calls[1][3]) => sockets[fd] # "listening"

\* socket_listen has returned -1 because listen() failed after a good bind
C16_Witness ==
    \E i \in Returns("socket_listen") :
        /\ trace[i][3] = -1
        /\ trace[i - 2] = Call("socket_listen", "listen", -1)
        /\ trace[i - 3] = Call("socket_listen", "bind", 0)

----------------------------------------------------------------------------
(* C17 *)

\* C17 (as claimed): when the gateway returned no method list, ssh_connect
\* still ends with a session or 0 and takes nothing from the absent list:
\* the process has not crashed and auth has no bit set.
C17_AbsentListNotUsed ==
    (Declared(sshLocals, "userauthlist") /\ sshLocals.userauthlist.isNull) =>
        /\ pc # "crashed"
        /\ sshLocals.auth = AUTH_NONE

----------------------------------------------------------------------------
(* C18 *)

\* C18: with AUTH_NONE selected no credentials are submitted and no session
\* is authenticated or returned, and for every list the gateway advertises
\* ssh_connect returns 0 straight after the method query (the branch of "No
\* supported authentication methods found."); a session that is returned was
\* authenticated by the submission of AUTH_PASSWORD or of AUTH_PUBLICKEY.
C18_NoneNeverAuthenticates ==
    /\ type = AUTH_NONE =>
         /\ Submissions = {}
         /\ sess # "authenticated"
         /\ SshReturned => SshResult = 0
         /\ (SshReturned /\ ListReturned) =>
              \E i \in Calls(SshFn, "libssh2_userauth_list") :
                  trace[i + 1] = Call(SshFn, "return", 0)
    /\ (SshReturned /\ SshResult # 0) =>
         /\ type \in {AUTH_PASSWORD, AUTH_PUBLICKEY}
         /\ \E i \in Submissions :
              /\ trace[i][3] = 0
              /\ trace[i][2] = IF type = AUTH_PASSWORD
                                 THEN "libssh2_userauth_password"
                                 ELSE "libssh2_userauth_publickey_fromfile"

\* AUTH_NONE was selected, the gateway advertised password and publickey,
\* and ssh_connect has returned
C18_Witness ==
    /\ type = AUTH_NONE
    /\ \E i, j \in DOMAIN gatewayMethods :
         gatewayMethods[i] = password /\ gatewayMethods[j] = publickey
    /\ SshReturned /\ SshResult = 0

====
